---- MODULE Spec2Model ----
(***************************************************************************)
(* Budgeted Fitted-Q (BFTQ): BudgetedFittedQ of                            *)
(* src/rl_agents/agents/budgeted_ftq/bftq.py as a state machine.           *)
(*                                                                         *)
(* Numbers.  Rewards, costs, budgets and network outputs are small         *)
(* integers (exact in float32).  Values that come out of a mixture are     *)
(* rationals, kept as pairs <<numerator, denominator>> with a positive     *)
(* denominator, so that (beta - inf.qc) / (sup.qc - inf.qc) is computed    *)
(* and not assumed.                                                        *)
(*                                                                         *)
(* The value network, the loss and optimizer factories, near_split,        *)
(* compute_convex_hull_from_values and optimal_mixture are imported by     *)
(* bftq.py from other modules; they are modelled from the design           *)
(* document's description of them (sections 4.3, 4.4 and 6).               *)
(*                                                                         *)
(* States are vectors of size_state = 2 components, so that squeeze()      *)
(* leaves a (states x components) matrix.  1 - terminals is read as the    *)
(* mask of the non-terminal positions.                                     *)
(***************************************************************************)
EXTENDS Integers, Sequences, FiniteSets, TLC

\* ------------------------------------------------------------- bounds
MaxMemory == 2
MaxEpochs == 2
MaxProcs == 2
MaxRows == 3
MaxSplit == 3
MaxCost == 3
MaxRuns == 2

\* ------------------------------------------------------- small helpers
None == <<>>

RECURSIVE SumSeq(_)
SumSeq(s) == IF s = <<>> THEN 0 ELSE Head(s) + SumSeq(Tail(s))

RECURSIVE Flatten(_)
Flatten(ss) == IF ss = <<>> THEN <<>> ELSE Head(ss) \o Flatten(Tail(ss))

RECURSIVE Repeat(_, _)
Repeat(s, k) == IF k = 0 THEN <<>> ELSE s \o Repeat(s, k - 1)

Abs(x) == IF x < 0 THEN -x ELSE x

\* rationals <<n, d>>, d > 0
RInt(n) == <<n, 1>>
RAdd(a, b) == <<a[1] * b[2] + b[1] * a[2], a[2] * b[2]>>
RSub(a, b) == <<a[1] * b[2] - b[1] * a[2], a[2] * b[2]>>
RMul(a, b) == <<a[1] * b[1], a[2] * b[2]>>
RAbs(a) == <<Abs(a[1]), a[2]>>
REq(a, b) == a[1] * b[2] = b[1] * a[2]
RLess(a, b) == a[1] * b[2] < b[1] * a[2]
RLeq(a, b) == a[1] * b[2] <= b[1] * a[2]

RECURSIVE RSum(_)
RSum(s) == IF s = <<>> THEN RInt(0) ELSE RAdd(Head(s), RSum(Tail(s)))

\* torch.clamp(x, min=lo, max=hi) on a rational x and integer limits
Clamp(x, lo, hi) ==
    IF RLess(x, RInt(lo)) THEN RInt(lo)
    ELSE IF RLess(RInt(hi), x) THEN RInt(hi) ELSE x

\* ------------------------------------------------------------ variables
VARIABLES
    config,        \* self.config and the lists evaluated from it
    memory,        \* self.memory.memory: the recorded transitions, in order
    last_push,     \* history: the arguments and the store before the last push
    params,        \* the value network's parameters
    norm,          \* the normalisation statistics pushed into the network
    epoch,         \* self.epoch
    pc,            \* position of the controlling thread
    raised,        \* the exception that ended run(), or "none"
    result,        \* what run() returned
    nruns,         \* history: calls of run() so far
    batch,         \* the batch tensors of _zip_batch
    next_rewards,  \* constrained_next_values: next_rewards
    next_costs,    \* constrained_next_values: next_costs
    sb,            \* compute_next_values: the (state, budget) rows
    batch_sizes,   \* compute_next_values: near_split's bins
    minibatch,     \* compute_next_values: loop index
    q_values,      \* compute_next_values: outputs gathered so far
    pool_fn,       \* the function the open Pool maps, or "none"
    tasks,         \* the argument tuples given to starmap
    task_st,       \* per task: "queued", "running", "done"
    task_res,      \* per task: its result once done
    finish_order,  \* history: task indices in completion order
    hulls,         \* constrained_next_values: hulls
    target_r,      \* compute_targets: target_r
    target_c,      \* compute_targets: target_c
    delta,         \* _fit: delta
    nn_epoch,      \* _fit: gradient loop index
    residuals,     \* history: the residual of each finished epoch of this run
    params_before, \* history: the parameters when the epoch began
    sel            \* the mixture selector harness: input and output

vars == <<config, memory, last_push, params, norm, epoch, pc, raised, result,
          nruns, batch, next_rewards, next_costs, sb, batch_sizes, minibatch,
          q_values, pool_fn, tasks, task_st, task_res, finish_order, hulls,
          target_r, target_c, delta, nn_epoch, residuals, params_before, sel>>

storeVars == <<memory, last_push>>
netVars == <<params, norm>>
backupVars == <<next_rewards, next_costs, sb, batch_sizes, minibatch, q_values, hulls>>
poolVars == <<pool_fn, tasks, task_st, task_res, finish_order>>
fitVars == <<target_r, target_c, delta, nn_epoch>>
runVars == <<epoch, raised, result, nruns, batch, residuals, params_before>>

\* ------------------------------------------------- configuration, inputs
n_actions == 2
size_state == 2

ParamValues == 0 .. 2

\* the configurations a BudgetedFittedQ is constructed with
RunConfigs ==
    [betas_for_duplication : {None},
     betas_for_discretisation : {<<0, 1>>},
     max_ftq_epochs : 0 .. MaxEpochs,
     delta_stop : {0, 3},
     gamma : {1},
     gamma_c : {0, 1},
     clamp_Qc : {None, <<0, 1>>},
     reset_network_each_epoch : BOOLEAN,
     max_nn_epoch : {1},
     split_batches : {1},
     cpu_processes : 1 .. MaxProcs,
     weights_losses : {<<1, 1>>},
     hull_options : {None}]

PushConfigs ==
    [betas_for_duplication : {None, <<2>>, <<1, 2>>},
     betas_for_discretisation : {<<0, 1>>},
     max_ftq_epochs : {0},
     delta_stop : {0},
     gamma : {1},
     gamma_c : {1},
     clamp_Qc : {None},
     reset_network_each_epoch : {FALSE},
     max_nn_epoch : {1},
     split_batches : {1},
     cpu_processes : {1},
     weights_losses : {<<1, 1>>},
     hull_options : {None}]

\* arguments of push: [state, action, reward, next_state, terminal, cost, beta];
\* beta is <<b>> for a number b and None when the caller gives none
RunInputs ==
    {[state |-> <<0, 0>>, action |-> 0, reward |-> 1, next_state |-> <<0, 1>>,
      terminal |-> FALSE, cost |-> 0, beta |-> <<1>>],
     [state |-> <<0, 1>>, action |-> 1, reward |-> 0, next_state |-> <<1, 1>>,
      terminal |-> FALSE, cost |-> 2, beta |-> <<0>>],
     [state |-> <<1, 1>>, action |-> 1, reward |-> 2, next_state |-> <<0, 0>>,
      terminal |-> TRUE, cost |-> 2, beta |-> <<1>>]}

PushInputs ==
    [state : {<<0, 0>>, <<0, 1>>}, action : {0, 1}, reward : {0, 1},
     next_state : {<<0, 1>>}, terminal : BOOLEAN, cost : {0, 2},
     beta : {None, <<0>>, <<1>>, <<3>>}]

\* ----------------------------------------------------------------- push
\* Python truth value of the optional number beta: None and 0 are false
BetaTruthy(beta) == beta # None /\ beta[1] # 0

Transition(a, b) ==
    [state |-> a.state, action |-> a.action, reward |-> a.reward,
     next_state |-> a.next_state, terminal |-> a.terminal, cost |-> a.cost,
     beta |-> b]

\* the budget stored for multiplier beta_d
DuplicatedBeta(beta_d, beta) ==
    IF BetaTruthy(beta) THEN beta_d * beta[1] ELSE beta_d

\* the transitions one call of push appends
Pushed(a) ==
    IF config.betas_for_duplication # None
    THEN [k \in 1 .. Len(config.betas_for_duplication) |->
            Transition(a, DuplicatedBeta(config.betas_for_duplication[k], a.beta))]
    ELSE <<Transition(a, a.beta[1])>>

\* push(state, action, reward, next_state, terminal, cost, beta).  Without a
\* multiplier list the budget must be a number: torch.tensor([[[None]]]) raises
\* before anything is stored.
push(a) ==
    /\ pc = "idle"
    /\ config.betas_for_duplication = None => a.beta # None
    /\ Len(memory) + Len(Pushed(a)) <= MaxMemory
    /\ memory' = memory \o Pushed(a)
    /\ last_push' = <<a, memory>>
    /\ UNCHANGED <<config, netVars, backupVars, poolVars, fitVars, runVars, pc, sel>>

\* ------------------------------------------- the external collaborators
\* Value Approximator: forward((state, budget) row) -> per action a reward-value
\* and a cost-value, laid out <<qr_0, .., qr_{A-1}, qc_0, .., qc_{A-1}>>.  A
\* fixed function of the parameters, the normalisation and the input row.
ValueNetwork(p, nm, row) ==
    [c \in 1 .. 2 * n_actions |->
        IF c <= n_actions
        THEN (p * (row[1] + 1) + row[2] + (c - 1) * (row[3] + 1) + nm[1]) % 4
        ELSE (p + row[1] + 2 * row[2] + (c - n_actions - 1) * 2 + row[3]) % 4]

\* Value Approximator: reset_parameters(), under a fixed seed
ResetParameters == 0

\* Loss constructors: loss(prediction, target) -> scalar; absolute error, summed
loss_function(pred, target) ==
    RSum([j \in 1 .. Len(pred) |-> RAbs(RSub(RInt(pred[j]), target[j]))])

\* Optimizer: step() on the clipped gradient of the loss; no move at zero loss
OptimizerStep(p, loss) == IF loss[1] = 0 THEN p ELSE (p + 1) % 3

\* near_split(x, num_bins): some num_bins non-negative bin sizes that sum to x
near_split(x, num_bins) ==
    {s \in [1 .. num_bins -> 0 .. x] : SumSeq(s) = x}

\* Frontier Builder.  The evaluation points of one state: one per budget-grid
\* value and action.
EvaluationPoints(values, betas) ==
    [i \in 1 .. Len(betas) * n_actions |->
        LET k == ((i - 1) \div n_actions) + 1
            a == (i - 1) % n_actions
        IN [beta |-> betas[k], action |-> a,
            qr |-> values[k][a + 1], qc |-> values[k][n_actions + a + 1]]]

\* q has less-or-equal cost and greater-or-equal reward, one of them strictly
Dominates(q, x) ==
    /\ q.qc <= x.qc
    /\ q.qr >= x.qr
    /\ q.qc < x.qc \/ q.qr > x.qr

RECURSIVE SortByCost(_)
SortByCost(S) ==
    IF S = {} THEN <<>>
    ELSE LET x == CHOOSE y \in S : \A z \in S : y.qc <= z.qc
         IN <<x>> \o SortByCost(S \ {x})

\* compute_convex_hull_from_values(values, betas, hull_options, clamp_Qc): the
\* non-dominated points by ascending cost, one point per cost; a 4-tuple whose
\* first component is the frontier
compute_convex_hull_from_values(values, betas, hull_options, clamp_Qc) ==
    LET pts == EvaluationPoints(values, betas)
        keep == {i \in DOMAIN pts :
                    /\ \A j \in DOMAIN pts : ~Dominates(pts[j], pts[i])
                    /\ \A j \in 1 .. i - 1 :
                         ~(pts[j].qc = pts[i].qc /\ pts[j].qr = pts[i].qr)}
    IN <<[kind |-> "hull", val |-> SortByCost({pts[i] : i \in keep})],
         pts, None, None>>

Mixture(inf, sup, p) == [inf |-> inf, sup |-> sup, probability_sup |-> p]

\* Mixture Selector: optimal_mixture(hull, beta), hull a non-empty frontier
optimal_mixture(hull, beta) ==
    LET n == Len(hull)
    IN IF beta <= hull[1].qc THEN Mixture(hull[1], hull[1], RInt(0))
       ELSE IF beta >= hull[n].qc THEN Mixture(hull[n], hull[n], RInt(0))
       ELSE LET k == CHOOSE i \in 1 .. n - 1 :
                        /\ hull[i].qc <= beta /\ beta <= hull[i + 1].qc
                        /\ \A j \in 1 .. i - 1 :
                             ~(hull[j].qc <= beta /\ beta <= hull[j + 1].qc)
                inf == hull[k]
                sup == hull[k + 1]
            IN IF inf.qc = sup.qc THEN Mixture(inf, sup, RInt(0))
               ELSE Mixture(inf, sup, <<beta - inf.qc, sup.qc - inf.qc>>)

\* ------------------------------------------------------------ _zip_batch
Tensor(x) == [kind |-> "tensor", val |-> x]

\* the per-field batches; state_beta is torch.cat((state, beta), dim=2)
ZipBatch(mem) ==
    [state_beta |-> [j \in 1 .. Len(mem) |-> mem[j].state \o <<mem[j].beta>>],
     actions |-> [j \in 1 .. Len(mem) |-> mem[j].action],
     rewards |-> [j \in 1 .. Len(mem) |-> mem[j].reward],
     costs |-> [j \in 1 .. Len(mem) |-> mem[j].cost],
     next_states |-> [j \in 1 .. Len(mem) |-> mem[j].next_state],
     betas |-> [j \in 1 .. Len(mem) |-> Tensor(mem[j].beta)],
     terminals |-> [j \in 1 .. Len(mem) |-> mem[j].terminal]]

\* mean and std over the batch are functions of its sum and its size
NormalizationParams(state_beta) ==
    <<SumSeq(Flatten(state_beta)), Len(state_beta)>>

\* ------------------------------------------------- constrained backup
\* x[1 - terminals]: the entries of x at the non-terminal positions, in order
RECURSIVE NonFinal(_, _)
NonFinal(x, terminals) ==
    IF x = <<>> THEN <<>>
    ELSE IF Head(terminals) THEN NonFinal(Tail(x), Tail(terminals))
         ELSE <<Head(x)>> \o NonFinal(Tail(x), Tail(terminals))

\* x[1 - terminals] = y: y's entries written to the non-terminal positions
Scatter(x, terminals, y) ==
    [j \in 1 .. Len(x) |->
        IF terminals[j] THEN x[j]
        ELSE y[Cardinality({i \in 1 .. j : ~terminals[i]})]]

\* the first-epoch test taken one epoch late
FirstEpochOffByOne(e) == e = 1

\* if self.epoch == 0
FirstEpoch(e) == e = 0

\* the rows sb: next_states.squeeze().repeat((1, n_beta)).view(n * n_beta,
\* size_state) beside the grid repeated once per state
CartesianProduct(next_states, betas) ==
    LET flat == Flatten([i \in 1 .. Len(next_states) |->
                            Repeat(next_states[i], Len(betas))])
        n == Len(next_states) * Len(betas)
    IN [r \in 1 .. n |->
           SubSeq(flat, (r - 1) * size_state + 1, r * size_state)
           \o <<betas[((r - 1) % Len(betas)) + 1]>>]

\* the slice begun one row late
MiniBatchSkippingFirst(rows, sizes, k) ==
    SubSeq(rows, SumSeq(SubSeq(sizes, 1, k)) + 2, SumSeq(SubSeq(sizes, 1, k + 1)))

\* sb[sum(batch_sizes[:minibatch]) : sum(batch_sizes[:minibatch + 1])]
MiniBatch(rows, sizes, k) ==
    SubSeq(rows, SumSeq(SubSeq(sizes, 1, k)) + 1, SumSeq(SubSeq(sizes, 1, k + 1)))

\* the two weights exchanged
ExpectedValueSwapped(p, inf_q, sup_q) ==
    RAdd(RMul(p, RInt(inf_q)), RMul(RSub(RInt(1), p), RInt(sup_q)))

\* (1 - probability_sup) * inf.q + probability_sup * sup.q
ExpectedValue(p, inf_q, sup_q) ==
    RAdd(RMul(RSub(RInt(1), p), RInt(inf_q)), RMul(p, RInt(sup_q)))

\* the argument tuples compute_all_hulls hands to starmap
HullParams(values, states_count) ==
    LET n_beta == Len(config.betas_for_discretisation)
    IN [state \in 1 .. states_count |->
           <<SubSeq(values, (state - 1) * n_beta + 1, state * n_beta),
             config.betas_for_discretisation, config.hull_options,
             config.clamp_Qc>>]

\* compute_all_optimal_mixtures(b_batch, hulls): the pairs (hulls[i], beta) for
\* i, beta in enumerate(b_batch), before beta.detach().item() is taken
compute_all_optimal_mixtures(b_batch, hulls_) ==
    [i \in 1 .. Len(b_batch) |-> <<hulls_[i], b_batch[i]>>]

\* beta.detach().item() is defined on tensors only
Detachable(x) == x.kind = "tensor"

\* ------------------------------------------------------- initial states
Zeros(n) == [j \in 1 .. n |-> RInt(0)]

InitRest ==
    /\ memory = <<>>
    /\ last_push = None
    /\ norm = <<0, 0>>
    /\ raised = "none"
    /\ result = None
    /\ nruns = 0
    /\ batch = <<>>
    /\ next_rewards = <<>>
    /\ next_costs = <<>>
    /\ minibatch = 0
    /\ q_values = <<>>
    /\ pool_fn = "none"
    /\ tasks = <<>>
    /\ task_st = <<>>
    /\ task_res = <<>>
    /\ finish_order = <<>>
    /\ hulls = <<>>
    /\ target_r = <<>>
    /\ target_c = <<>>
    /\ delta = RInt(0)
    /\ nn_epoch = 0
    /\ residuals = <<>>
    /\ params_before = 0

\* __init__: the network is reset, the memory is empty, self.epoch = 0
InitWith(C) ==
    /\ config \in C
    /\ params = 0
    /\ epoch = 0
    /\ pc = "idle"
    /\ sb = <<>>
    /\ batch_sizes = <<>>
    /\ sel = None
    /\ InitRest

\* ----------------------------------------------- the recording phase alone
InitPush == InitWith(PushConfigs)

NextPush == \E a \in PushInputs : push(a)

SpecPush == InitPush /\ [][NextPush]_vars

\* C10: a push with a numeric budget beta appends, when the multiplier list
\* has k >= 1 entries, exactly k transitions, the one for multiplier m with
\* budget m * beta and the other fields as pushed; without a list it appends
\* one transition with beta unchanged; the transitions already stored stay.
C10_PushDuplicates ==
    (last_push # None /\ last_push[1].beta # None) =>
        LET a == last_push[1]
            before == last_push[2]
            dup == config.betas_for_duplication
            want == IF dup # None
                    THEN [k \in 1 .. Len(dup) |-> Transition(a, dup[k] * a.beta[1])]
                    ELSE <<Transition(a, a.beta[1])>>
        IN memory = before \o want

\* ------------------------------------------------------------------ run
\* run(): for self.epoch in range(max_ftq_epochs).  _zip_batch needs a
\* non-empty store, so run() is called on one unless no epoch is to run.
Run ==
    /\ pc = "idle"
    /\ nruns < MaxRuns
    /\ memory # <<>> \/ config.max_ftq_epochs = 0
    /\ nruns' = nruns + 1
    /\ residuals' = <<>>
    /\ raised' = "none"
    /\ IF config.max_ftq_epochs = 0
       THEN /\ pc' = "returned"
            /\ result' = "value_network"
            /\ epoch' = epoch
       ELSE /\ pc' = "zip"
            /\ result' = None
            /\ epoch' = 0
    /\ UNCHANGED <<config, storeVars, netVars, backupVars, poolVars, fitVars,
                   batch, params_before, sel>>

\* _epoch, first statement: _zip_batch gathers the batch and pushes the
\* normalisation statistics into the network
Epoch_ZipBatch ==
    /\ pc = "zip"
    /\ batch' = ZipBatch(memory)
    /\ norm' = NormalizationParams(ZipBatch(memory).state_beta)
    /\ params_before' = params
    /\ pc' = "targets"
    /\ UNCHANGED <<config, storeVars, params, backupVars, poolVars, fitVars,
                   epoch, raised, result, nruns, residuals, sel>>

\* compute_targets -> constrained_next_values up to the forward pass: zero
\* bootstrap values, returned as they are in the first epoch; otherwise the
\* non-final next states are selected and compute_next_values builds sb and
\* the minibatch sizes
constrained_next_values ==
    /\ pc = "targets"
    /\ next_rewards' = Zeros(Len(batch.next_states))
    /\ next_costs' = Zeros(Len(batch.next_states))
    /\ IF FirstEpoch(epoch)
       THEN /\ pc' = "assemble"
            /\ UNCHANGED <<sb, batch_sizes, minibatch, q_values>>
       ELSE LET next_states_nf == NonFinal(batch.next_states, batch.terminals)
                rows == CartesianProduct(next_states_nf,
                                         config.betas_for_discretisation)
            IN /\ sb' = rows
               /\ batch_sizes' \in near_split(Len(rows), config.split_batches)
               /\ minibatch' = 0
               /\ q_values' = <<>>
               /\ pc' = "forward"
    /\ UNCHANGED <<config, storeVars, netVars, hulls, poolVars, fitVars, runVars, sel>>

\* compute_next_values, one turn of the minibatch loop
ForwardMinibatch ==
    /\ pc = "forward"
    /\ minibatch < config.split_batches
    /\ LET mini_batch == MiniBatch(sb, batch_sizes, minibatch)
       IN q_values' = Append(q_values,
              [r \in 1 .. Len(mini_batch) |-> ValueNetwork(params, norm, mini_batch[r])])
    /\ minibatch' = minibatch + 1
    /\ UNCHANGED <<config, storeVars, netVars, next_rewards, next_costs, sb,
                   batch_sizes, hulls, poolVars, fitVars, runVars, pc, sel>>

\* compute_next_values returns torch.cat(q_values)
ForwardReturn ==
    /\ pc = "forward"
    /\ minibatch = config.split_batches
    /\ q_values' = Flatten(q_values)
    /\ pc' = "hulls"
    /\ UNCHANGED <<config, storeVars, netVars, next_rewards, next_costs, sb,
                   batch_sizes, minibatch, hulls, poolVars, fitVars, runVars, sel>>

\* Pool(...).starmap(f, args): the pool opens with every task queued
Starmap(f, args) ==
    /\ pool_fn' = f
    /\ tasks' = args
    /\ task_st' = [i \in 1 .. Len(args) |-> "queued"]
    /\ task_res' = [i \in 1 .. Len(args) |-> None]
    /\ finish_order' = <<>>

\* leaving the with-block terminates the pool (finish_order is history)
ClosePool ==
    /\ pool_fn' = "none"
    /\ tasks' = <<>>
    /\ task_st' = <<>>
    /\ task_res' = <<>>
    /\ finish_order' = finish_order

\* compute_all_hulls: one task per non-final state
compute_all_hulls ==
    /\ pc = "hulls"
    /\ Starmap("compute_convex_hull_from_values",
               HullParams(q_values, Len(NonFinal(batch.next_states, batch.terminals))))
    /\ pc' = "hull_pool"
    /\ UNCHANGED <<config, storeVars, netVars, backupVars, fitVars, runVars, sel>>

\* a free worker of the pool takes a queued task
TaskStart(i) ==
    /\ pool_fn # "none"
    /\ task_st[i] = "queued"
    /\ Cardinality({j \in DOMAIN task_st : task_st[j] = "running"}) < config.cpu_processes
    /\ task_st' = [task_st EXCEPT ![i] = "running"]
    /\ UNCHANGED <<config, storeVars, netVars, backupVars, fitVars, runVars, pc,
                   sel, pool_fn, tasks, task_res, finish_order>>

TaskResult(f, args) ==
    IF f = "compute_convex_hull_from_values"
    THEN compute_convex_hull_from_values(args[1], args[2], args[3], args[4])
    ELSE optimal_mixture(args[1].val, args[2])

\* a worker finishes its task
TaskFinish(i) ==
    /\ pool_fn # "none"
    /\ task_st[i] = "running"
    /\ task_st' = [task_st EXCEPT ![i] = "done"]
    /\ task_res' = [task_res EXCEPT ![i] = TaskResult(pool_fn, tasks[i])]
    /\ finish_order' = Append(finish_order, i)
    /\ UNCHANGED <<config, storeVars, netVars, backupVars, fitVars, runVars, pc,
                   sel, pool_fn, tasks>>

\* starmap returns when every task is done
StarmapComplete(st) == \A i \in DOMAIN st : st[i] = "done"

\* the results in the order the tasks finished
ResultsByCompletion(res, order) == [i \in 1 .. Len(order) |-> res[order[i]]]

\* starmap's result list: the results by task index
StarmapResults(res, order) == res

\* the controlling thread resumes when starmap returns and the with-block has
\* closed the pool.
\* In compute_all_hulls: hulls, _, _, _ = zip(*results), which has nothing to
\* unpack when there is no non-final state.
\* In compute_all_optimal_mixtures, back in constrained_next_values: the
\* expected reward and cost of each mixture, written to the non-final positions.
starmap_return ==
    /\ pc \in {"hull_pool", "mix_pool"}
    /\ StarmapComplete(task_st)
    /\ LET results == StarmapResults(task_res, finish_order)
       IN IF pc = "hull_pool"
          THEN /\ IF results = <<>>
                  THEN /\ pc' = "raised"
                       /\ raised' = "ValueError"
                       /\ hulls' = hulls
                  ELSE /\ pc' = "mixtures"
                       /\ raised' = raised
                       /\ hulls' = [i \in 1 .. Len(results) |-> results[i][1]]
               /\ UNCHANGED <<next_rewards, next_costs>>
          ELSE /\ next_rewards' = Scatter(next_rewards, batch.terminals,
                      [i \in 1 .. Len(results) |->
                          ExpectedValue(results[i].probability_sup,
                                        results[i].inf.qr, results[i].sup.qr)])
               /\ next_costs' = Scatter(next_costs, batch.terminals,
                      [i \in 1 .. Len(results) |->
                          ExpectedValue(results[i].probability_sup,
                                        results[i].inf.qc, results[i].sup.qc)])
               /\ pc' = "assemble"
               /\ UNCHANGED <<raised, hulls>>
    /\ ClosePool
    /\ UNCHANGED <<config, storeVars, netVars, sb, batch_sizes, minibatch,
                   q_values, fitVars, epoch, result, nruns, batch, residuals,
                   params_before, sel>>

\* constrained_next_values calls compute_all_optimal_mixtures(hulls, betas_nf);
\* the argument list is built inside the with-block, each budget through
\* .detach().item(), and the tasks are mapped only if that succeeds
optimal_mixtures ==
    /\ pc = "mixtures"
    /\ LET betas_nf == NonFinal(batch.betas, batch.terminals)
           args == compute_all_optimal_mixtures(hulls, betas_nf)
       IN IF \A i \in DOMAIN args : Detachable(args[i][2])
          THEN /\ Starmap("optimal_mixture",
                          [i \in DOMAIN args |-> <<args[i][1], args[i][2].val>>])
               /\ pc' = "mix_pool"
               /\ raised' = raised
          ELSE /\ ClosePool
               /\ pc' = "raised"
               /\ raised' = "AttributeError"
    /\ UNCHANGED <<config, storeVars, netVars, backupVars, fitVars, epoch, result,
                   nruns, batch, residuals, params_before, sel>>

\* compute_targets after constrained_next_values: the targets, the cost
\* targets clamped when clamp_Qc is configured
TargetR(reward, next_reward) == RAdd(RInt(reward), RMul(RInt(config.gamma), next_reward))

\* the cost discount applied to the whole sum
TargetCDiscountedSum(cost, next_cost) ==
    LET t == RMul(RInt(config.gamma_c), RAdd(RInt(cost), next_cost))
    IN IF config.clamp_Qc # None
       THEN Clamp(t, config.clamp_Qc[1], config.clamp_Qc[2])
       ELSE t

TargetC(cost, next_cost) ==
    LET t == RAdd(RInt(cost), RMul(RInt(config.gamma_c), next_cost))
    IN IF config.clamp_Qc # None
       THEN Clamp(t, config.clamp_Qc[1], config.clamp_Qc[2])
       ELSE t

compute_targets ==
    /\ pc = "assemble"
    /\ target_r' = [j \in 1 .. Len(batch.rewards) |->
                       TargetR(batch.rewards[j], next_rewards[j])]
    /\ target_c' = [j \in 1 .. Len(batch.costs) |->
                       TargetC(batch.costs[j], next_costs[j])]
    /\ pc' = "fit_delta"
    /\ UNCHANGED <<config, storeVars, netVars, backupVars, poolVars, delta,
                   nn_epoch, runVars, sel>>

\* ----------------------------------------------------------------- _fit
\* _compute_loss: w_c * loss_c(qc, target_c) + w_r * loss(qr, target_r), with
\* qr, qc the network's values at the taken actions
compute_loss(p, nm, states_betas, actions, tr, tc) ==
    LET values == [j \in 1 .. Len(states_betas) |-> ValueNetwork(p, nm, states_betas[j])]
        qr == [j \in 1 .. Len(actions) |-> values[j][actions[j] + 1]]
        qc == [j \in 1 .. Len(actions) |-> values[j][actions[j] + n_actions + 1]]
        w_r == config.weights_losses[1]
        w_c == config.weights_losses[2]
    IN RAdd(RMul(RInt(w_c), loss_function(qc, tc)),
            RMul(RInt(w_r), loss_function(qr, tr)))

\* the residual taken after the optional reset
ResidualParamsAfterReset(p) ==
    IF config.reset_network_each_epoch THEN ResetParameters ELSE p

\* the parameters the initial Bellman residual is evaluated with
ResidualParams(p) == p

\* _fit: delta, the loss before anything is fitted
fit_residual ==
    /\ pc = "fit_delta"
    /\ delta' = compute_loss(ResidualParams(params), norm, batch.state_beta,
                             batch.actions, target_r, target_c)
    /\ pc' = "fit_reset"
    /\ UNCHANGED <<config, storeVars, netVars, backupVars, poolVars, target_r,
                   target_c, nn_epoch, runVars, sel>>

\* _fit: the optional reset of the network, then the gradient loop starts
fit_reset ==
    /\ pc = "fit_reset"
    /\ params' = IF config.reset_network_each_epoch THEN ResetParameters ELSE params
    /\ nn_epoch' = 0
    /\ pc' = "fit_grad"
    /\ UNCHANGED <<config, storeVars, norm, backupVars, poolVars, target_r,
                   target_c, delta, runVars, sel>>

\* _gradient_step: one optimizer step on the loss against the targets
gradient_step ==
    /\ pc = "fit_grad"
    /\ nn_epoch < config.max_nn_epoch
    /\ params' = OptimizerStep(params, compute_loss(params, norm, batch.state_beta,
                                   batch.actions, target_r, target_c))
    /\ nn_epoch' = nn_epoch + 1
    /\ UNCHANGED <<config, storeVars, norm, backupVars, poolVars, target_r,
                   target_c, delta, runVars, pc, sel>>

\* _fit returning without waiting for the gradient loop
GradientLoopSkipped(n) == TRUE

\* for nn_epoch in range(max_nn_epoch) is exhausted
GradientLoopDone(n) == n = config.max_nn_epoch

\* _fit returns delta to _epoch, and _epoch to run
fit_return ==
    /\ pc = "fit_grad"
    /\ GradientLoopDone(nn_epoch)
    /\ residuals' = Append(residuals, delta)
    /\ pc' = "check"
    /\ UNCHANGED <<config, storeVars, netVars, backupVars, poolVars, fitVars,
                   epoch, raised, result, nruns, batch, params_before, sel>>

\* run: break when delta < delta_stop; else the next epoch, if any is left;
\* return self._value_network
run_check ==
    /\ pc = "check"
    /\ IF RLess(delta, RInt(config.delta_stop)) \/ epoch + 1 >= config.max_ftq_epochs
       THEN /\ pc' = "returned"
            /\ result' = "value_network"
            /\ epoch' = epoch
       ELSE /\ pc' = "zip"
            /\ result' = result
            /\ epoch' = epoch + 1
    /\ UNCHANGED <<config, storeVars, netVars, backupVars, poolVars, fitVars,
                   raised, nruns, batch, residuals, params_before, sel>>

\* the caller has the network and goes on using the agent
Resume ==
    /\ pc = "returned"
    /\ nruns < MaxRuns
    /\ pc' = "idle"
    /\ UNCHANGED <<config, storeVars, netVars, backupVars, poolVars, fitVars,
                   runVars, sel>>

Next ==
    \/ \E a \in RunInputs : push(a)
    \/ Run
    \/ Epoch_ZipBatch
    \/ constrained_next_values
    \/ ForwardMinibatch
    \/ ForwardReturn
    \/ compute_all_hulls
    \/ \E i \in DOMAIN task_st : TaskStart(i)
    \/ \E i \in DOMAIN task_st : TaskFinish(i)
    \/ starmap_return
    \/ optimal_mixtures
    \/ compute_targets
    \/ fit_residual
    \/ fit_reset
    \/ gradient_step
    \/ fit_return
    \/ run_check
    \/ Resume

Init == InitWith(RunConfigs)

Spec == Init /\ [][Next]_vars

\* -------------------------------------- the minibatch split on its own
SplitConfigs ==
    [betas_for_duplication : {None},
     betas_for_discretisation : {<<0>>},
     max_ftq_epochs : {2},
     delta_stop : {0},
     gamma : {1},
     gamma_c : {1},
     clamp_Qc : {None},
     reset_network_each_epoch : {FALSE},
     max_nn_epoch : {1},
     split_batches : 1 .. MaxSplit,
     cpu_processes : {1},
     weights_losses : {<<1, 1>>},
     hull_options : {None}]

\* compute_next_values entered with n rows, n = 0 .. MaxRows, row r being
\* state (r, 0) at budget 0, and any bins near_split may give
InitSplit ==
    /\ config \in SplitConfigs
    /\ params \in ParamValues
    /\ epoch = 1
    /\ pc = "forward"
    /\ \E n \in 0 .. MaxRows :
          /\ sb = [r \in 1 .. n |-> <<r, 0, 0>>]
          /\ batch_sizes \in near_split(n, config.split_batches)
    /\ sel = None
    /\ InitRest

NextSplit == ForwardMinibatch \/ ForwardReturn

SpecSplit == InitSplit /\ [][NextSplit]_vars

\* ------------------------------------- the mixture selector on its own
\* frontiers: costs strictly increasing within 0 .. MaxCost, reward f * cost + 1
Frontiers ==
    {SortByCost({[beta |-> 0, action |-> 0, qc |-> c, qr |-> f * c + 1] : c \in C}) :
        C \in (SUBSET (0 .. MaxCost)) \ {{}}, f \in {1, 2}}

MixConfigs == {c \in PushConfigs : c.betas_for_duplication = None}

\* a frontier and a target budget between its cheapest and its dearest cost
InitMix ==
    /\ config \in MixConfigs
    /\ params = 0
    /\ epoch = 1
    /\ pc = "select"
    /\ sb = <<>>
    /\ batch_sizes = <<>>
    /\ \E h \in Frontiers : \E b \in h[1].qc .. h[Len(h)].qc :
          sel = [hull |-> h, beta |-> b, mix |-> None,
                 next_reward |-> None, next_cost |-> None]
    /\ InitRest

\* the worker's call optimal_mixture(hull, beta)
SelectMixture ==
    /\ pc = "select"
    /\ sel' = [sel EXCEPT !.mix = optimal_mixture(sel.hull, sel.beta)]
    /\ pc' = "expect"
    /\ UNCHANGED <<config, storeVars, netVars, backupVars, poolVars, fitVars, runVars>>

\* constrained_next_values: the expected reward and cost of the mixture
ExpectMixture ==
    /\ pc = "expect"
    /\ sel' = [sel EXCEPT
                 !.next_reward = ExpectedValue(sel.mix.probability_sup,
                                               sel.mix.inf.qr, sel.mix.sup.qr),
                 !.next_cost = ExpectedValue(sel.mix.probability_sup,
                                             sel.mix.inf.qc, sel.mix.sup.qc)]
    /\ pc' = "expected"
    /\ UNCHANGED <<config, storeVars, netVars, backupVars, poolVars, fitVars, runVars>>

NextMix == SelectMixture \/ ExpectMixture

SpecMix == InitMix /\ [][NextMix]_vars

\* ================================================================ claims
Running == pc \notin {"idle", "returned", "raised", "select", "expect", "expected"}

Fitting == pc \in {"fit_delta", "fit_reset", "fit_grad", "check"}

C2_SelectorArguments ==
    LET betas_nf == NonFinal(batch.betas, batch.terminals)
    IN /\ pc = "mixtures" =>
             LET args == compute_all_optimal_mixtures(hulls, betas_nf)
             IN \A i \in DOMAIN args : args[i] = <<hulls[i], betas_nf[i]>>
       /\ (pc = "assemble" /\ ~FirstEpoch(epoch)) =>
             LET mix == [i \in 1 .. Len(betas_nf) |->
                            optimal_mixture(hulls[i].val, betas_nf[i].val)]
             IN /\ next_rewards = Scatter(Zeros(Len(batch.terminals)), batch.terminals,
                       [i \in 1 .. Len(mix) |->
                           ExpectedValue(mix[i].probability_sup, mix[i].inf.qr,
                                         mix[i].sup.qr)])
                /\ next_costs = Scatter(Zeros(Len(batch.terminals)), batch.terminals,
                       [i \in 1 .. Len(mix) |->
                           ExpectedValue(mix[i].probability_sup, mix[i].inf.qc,
                                         mix[i].sup.qc)])
       /\ pc = "raised" => raised # "AttributeError"

C4_RunReturnsNetwork ==
    pc \in {"returned", "raised"} =>
        /\ pc = "returned"
        /\ result = "value_network"
        /\ Len(residuals) <= config.max_ftq_epochs
        /\ \A k \in 1 .. Len(residuals) - 1 :
              ~RLess(residuals[k], RInt(config.delta_stop))
        /\ Len(residuals) < config.max_ftq_epochs =>
              /\ residuals # <<>>
              /\ RLess(residuals[Len(residuals)], RInt(config.delta_stop))

C6_MixtureMeetsBudget ==
    /\ pc \in {"expect", "expected"} =>
          /\ RLeq(RInt(0), sel.mix.probability_sup)
          /\ RLeq(sel.mix.probability_sup, RInt(1))
    /\ pc = "expected" => REq(sel.next_cost, RInt(sel.beta))

\* a proper mixture: the budget lies strictly between two vertices
C6_Witness ==
    /\ pc = "expected"
    /\ RLess(RInt(0), sel.mix.probability_sup)
    /\ RLess(sel.mix.probability_sup, RInt(1))
    /\ sel.mix.inf.qc < sel.beta
    /\ sel.beta < sel.mix.sup.qc
    /\ Len(sel.hull) >= 3

\* ---------------------------------------------------------------- C7
\* C7: the residual of an epoch is the weighted loss, against this epoch's
\* targets, of the parameters as they stood when the epoch began: it is taken
\* while they are still untouched, and neither the reset nor a gradient step
\* changes it; it is what the epoch returns.
C7_ResidualBeforeFit ==
    /\ pc \in {"targets", "assemble", "fit_delta"} => params = params_before
    /\ pc \in {"fit_reset", "fit_grad", "check"} =>
          delta = compute_loss(params_before, norm, batch.state_beta,
                               batch.actions, target_r, target_c)
    /\ pc = "check" => residuals[Len(residuals)] = delta

\* an epoch that began with parameters left by an earlier epoch's gradient
\* steps, and whose own steps have changed the parameters and their loss
C7_Witness ==
    /\ pc = "check"
    /\ params_before # ResetParameters
    /\ params # params_before
    /\ delta # compute_loss(params, norm, batch.state_beta, batch.actions,
                            target_r, target_c)

\* ---------------------------------------------------------------- C8
\* C8: the phases never overlap.  A pool is open, and a task can run, only
\* while the controlling thread waits in that pool's starmap; the forward pass
\* is complete before the frontier pool opens; every frontier is gathered and
\* the pool closed before the mixtures are dispatched; the parameters change
\* only in the fit phase, with no pool open; _fit is left only after its last
\* gradient step, and an epoch begins only from the loop check or from run().
C8_PhaseInv ==
    /\ pool_fn # "none" <=> pc \in {"hull_pool", "mix_pool"}
    /\ pc = "hull_pool" => pool_fn = "compute_convex_hull_from_values"
    /\ pc = "mix_pool" => pool_fn = "optimal_mixture"
    /\ pc \notin {"hull_pool", "mix_pool"} => tasks = <<>> /\ task_st = <<>>
    /\ pc \in {"hulls", "hull_pool", "mixtures", "mix_pool"} =>
          /\ minibatch = config.split_batches
          /\ Len(q_values) = Len(sb)
    /\ pc \in {"mixtures", "mix_pool"} =>
          Len(hulls) = Len(NonFinal(batch.next_states, batch.terminals))

C8_PhaseStep ==
    /\ params' # params => pc \in {"fit_reset", "fit_grad"} /\ pool_fn = "none"
    /\ (target_r' # target_r \/ target_c' # target_c) =>
          pc = "assemble" /\ pool_fn = "none"
    /\ (pc = "fit_grad" /\ pc' # "fit_grad") => nn_epoch = config.max_nn_epoch
    /\ pc' = "zip" => pc \in {"idle", "check"}
    /\ (Running /\ epoch' # epoch) => pc = "check"

C8_PhasesNeverOverlap == []C8_PhaseInv /\ [][C8_PhaseStep]_vars

\* two frontier tasks running at once in the second epoch, the controlling
\* thread waiting for them, the parameters those left by the first epoch's fit
C8_Witness ==
    /\ pc = "hull_pool"
    /\ epoch = 1
    /\ Cardinality({i \in DOMAIN task_st : task_st[i] = "running"}) = 2
    /\ params # ResetParameters

\* ---------------------------------------------------------------- C9
\* C9: for n >= 0 rows, split_batches >= 1 minibatches and bins that are
\* non-negative and sum to n, the minibatch slices are contiguous, disjoint
\* and cover the rows: after k turns the outputs gathered are those of the
\* first sum(sizes[:k]) rows in order, and the concatenated result has row r
\* equal to the network's output for input row r.
C9_MinibatchesCover ==
    /\ Flatten([k \in 1 .. config.split_batches |-> MiniBatch(sb, batch_sizes, k - 1)]) = sb
    /\ pc = "forward" =>
          Flatten(q_values) =
              [r \in 1 .. SumSeq(SubSeq(batch_sizes, 1, minibatch)) |->
                  ValueNetwork(params, norm, sb[r])]
    /\ pc = "hulls" =>
          q_values = [r \in 1 .. Len(sb) |-> ValueNetwork(params, norm, sb[r])]

\* more minibatches than rows, with an empty bin and unequal bins
C9_Witness ==
    /\ pc = "hulls"
    /\ Len(sb) >= 2
    /\ config.split_batches > Len(sb)
    /\ batch_sizes[1] = 0
    /\ \E k \in DOMAIN batch_sizes : batch_sizes[k] >= 2
    /\ q_values[1] # q_values[2]

====
